---- MODULE Spec2Model ----
(***************************************************************************)
(* Model of the GitLab push-event webhook of server/webhook.go             *)
(* (registerWebhookRoutes): request validation, the per-commit / per-file  *)
(* loop that classifies added files, resolves their databases, loads the   *)
(* pipeline approval policies, creates issues and records activities; and  *)
(* of the issue status tables of frontend/src/types/issue.ts.              *)
(*                                                                         *)
(* A file path is a sequence of segments ("db/prod/orders" is              *)
(* <<"db","prod","orders">>); a path template is a sequence of segments    *)
(* some of which are placeholders.                                         *)
(***************************************************************************)
EXTENDS Integers, Sequences, FiniteSets, TLC

\* ------------------------------------------------------------------ bounds
\* Largest size of a push event: the added files of its commits, a commit
\* that adds no file counting for one.
MaxFiles == 2
\* Largest number of failures (of a collaborator call, of building a payload)
\* during one request.
MaxFaults == 2
\* Largest number of status transitions applied to the issues of the front
\* end.
MaxMoves == 3

\* The webhook deliveries of the model.
Reqs == {"r1", "r2"}

VARIABLES
    repository,             \* the stored repository configuration
    request,                \* request[r]: the HTTP request of delivery r
    pc,                     \* pc[r]: the handler's position
    commitIdx,              \* commitIdx[r]: index of `commit` in CommitList
    addedIdx,               \* addedIdx[r]: index of `added` in AddedList
    mi,                     \* mi[r]: the parsed migration info of the file
    filterdDatabaseList,    \* filterdDatabaseList[r]
    dbIdx,                  \* dbIdx[r]: position of the loop of lines 221-239
    pipelineApprovalByEnv,  \* pipelineApprovalByEnv[r]: EnvironmentId -> value
    issue,                  \* issue[r]: the issue CreateIssue returned
    createdMessageList,     \* createdMessageList[r]
    response,               \* response[r]: [status, body], status 0 = none yet
    issueStore,             \* the issues persisted, in creation order
    activityStore,          \* the activities persisted, in creation order
    trace,                  \* trace[r]: the files the loops reached and the
                            \* collaborator calls made, with their results
    issueStatus,            \* issueStatus[i]: the status of issue i in the front end
    moves                   \* the status transitions applied, in order

vars == <<repository, request, pc, commitIdx, addedIdx, mi, filterdDatabaseList,
          dbIdx, pipelineApprovalByEnv, issue, createdMessageList, response,
          issueStore, activityStore, trace, issueStatus, moves>>

\* ------------------------------------------------------------ the world
\* Placeholders of a path template.
ENV_NAME == "{{ENV_NAME}}"
DB_NAME == "{{DB_NAME}}"
Placeholders == {ENV_NAME, DB_NAME}

\* The stored repository: its secret, external project id and project.
WebhookSecretToken == "secret"
ExternalId == "42"
KnownEndpointId == "ep"
BaseDirectory == <<"db">>

\* The file path templates a repository may be configured with.
FilePathTemplates == {<<ENV_NAME, DB_NAME>>, <<DB_NAME>>}
\* The schema path templates: none (the empty template), or one.
SchemaPathTemplates == {<<>>, <<"db", DB_NAME, "LATEST">>}

\* The configurations of the stored repository.
Repositories == [FilePathTemplate : FilePathTemplates,
                 SchemaPathTemplate : SchemaPathTemplates]

\* The databases of the project, as ComposeDatabaseListByFind returns them:
\* "orders" twice in environment 1 (prod) and once in environment 2 (dev),
\* "users" once in each.
DatabaseTable == <<
    [ID |-> 1, Name |-> "orders", EnvironmentId |-> 1, EnvironmentName |-> "prod"],
    [ID |-> 2, Name |-> "orders", EnvironmentId |-> 1, EnvironmentName |-> "prod"],
    [ID |-> 3, Name |-> "orders", EnvironmentId |-> 2, EnvironmentName |-> "dev"],
    [ID |-> 4, Name |-> "users", EnvironmentId |-> 1, EnvironmentName |-> "prod"],
    [ID |-> 5, Name |-> "users", EnvironmentId |-> 2, EnvironmentName |-> "dev"] >>

EnvironmentIds == {DatabaseTable[i].EnvironmentId : i \in DOMAIN DatabaseTable}

\* The stored pipeline approval policy of each environment.
PolicyTable == [e \in EnvironmentIds |->
                  IF e = 1 THEN "MANUAL_ALWAYS" ELSE "MANUAL_NEVER"]

\* The added file paths of the push events of the model.
Paths == { <<"etc", "users">>,
           <<"db", "users", "LATEST">>,
           <<"db", "prod", "orders">>,
           <<"db", "DEV", "orders">>,
           <<"db", "qa", "users">>,
           <<"db", "users">>,
           <<"db", "orders">> }


\* A prefix test that every path passes.
HasPrefix_Always(added, base) == TRUE

\* ------------------------------------------------------- pure functions
\* strings.HasPrefix(added, repository.BaseDirectory), on segments.
HasPrefix(added, base) ==
    /\ Len(base) <= Len(added)
    /\ SubSeq(added, 1, Len(base)) = base

\* Lower-case folding of the environment names of the model.
ToLower(s) ==
    CASE s = "PROD" -> "prod"
      [] s = "DEV"  -> "dev"
      [] s = "QA"   -> "qa"
      [] OTHER      -> s

\* A comparison under which all names are equal.
EqualFold_Always(a, b) == TRUE

\* strings.EqualFold(a, b).
EqualFold(a, b) == ToLower(a) = ToLower(b)

\* The regular expression built from a schema path template matches at the
\* start of `path`: a literal segment matches itself, a placeholder matches
\* one or more segments (its character class holds "/"), and nothing anchors
\* the end of the match.
RECURSIVE MatchAt(_, _)
MatchAt(path, template) ==
    IF template = <<>> THEN TRUE
    ELSE IF path = <<>> THEN FALSE
    ELSE IF Head(template) \in Placeholders
         THEN \E n \in 1..Len(path) :
                 MatchAt(SubSeq(path, n + 1, Len(path)), Tail(template))
         ELSE /\ Head(path) = Head(template)
              /\ MatchAt(Tail(path), Tail(template))

\* An expression that matches no path.
MatchString_Never(template, added) == FALSE

\* myRegex.MatchString(added): the expression matches somewhere in the path.
MatchString(template, added) ==
    \E i \in 1..Len(added) : MatchAt(SubSeq(added, i, Len(added)), template)

\* filepath.Join(repository.BaseDirectory, repository.FilePathTemplate).
Join(base, template) == base \o template

NoMigrationInfo == [ok |-> FALSE, Database |-> "", Environment |-> ""]

\* db.ParseMigrationInfo(added, template): the path matches the template
\* segment by segment, each placeholder capturing one segment; Environment is
\* "" when the template holds no environment placeholder.
ParseMigrationInfo(added, template) ==
    IF /\ Len(added) = Len(template)
       /\ \A i \in 1..Len(template) :
             template[i] \in Placeholders \/ template[i] = added[i]
    THEN LET capture(ph) ==
                 IF \E i \in 1..Len(template) : template[i] = ph
                 THEN added[CHOOSE i \in 1..Len(template) : template[i] = ph]
                 ELSE ""
         IN  [ok |-> TRUE, Database |-> capture(DB_NAME),
              Environment |-> capture(ENV_NAME)]
    ELSE NoMigrationInfo

\* The elements of sequence s that satisfy Test, in order.
RECURSIVE SelectSeqBy(_, _)
SelectSeqBy(s, keep) ==
    IF s = <<>> THEN <<>>
    ELSE IF Head(s) \in keep THEN <<Head(s)>> \o SelectSeqBy(Tail(s), keep)
    ELSE SelectSeqBy(Tail(s), keep)

\* s.ComposeDatabaseListByFind(ctx, {ProjectId, Name}) when it succeeds.
ComposeDatabaseListByFind(name) ==
    SelectSeqBy(DatabaseTable,
                {DatabaseTable[i] : i \in {j \in DOMAIN DatabaseTable :
                                             DatabaseTable[j].Name = name}})

\* A filter that keeps every database, whatever the environment of the file.
FilterByEnvironment_NoFilter(databaseList, environment) == databaseList

\* Lines 200-214: the databases kept by the environment filter.
FilterByEnvironment(databaseList, environment) ==
    IF environment # ""
    THEN SelectSeqBy(databaseList,
                     {databaseList[i] : i \in {j \in DOMAIN databaseList :
                         EqualFold(databaseList[j].EnvironmentName, environment)}})
    ELSE databaseList

\* An ambiguity check that never finds two databases in one environment.
MultipleDatabaseForSameEnv_Never(databaseList) == FALSE

\* An ambiguity check that also gives way to an issue in the store that
\* targets one of the databases.
MultipleDatabaseForSameEnv_OrTaken(databaseList) ==
    \/ \E i, j \in DOMAIN databaseList :
          i # j /\ databaseList[i].EnvironmentId = databaseList[j].EnvironmentId
    \/ \E k \in DOMAIN issueStore :
          \E n \in DOMAIN issueStore[k].Pipeline.StageList :
              \E i \in DOMAIN databaseList :
                  issueStore[k].Pipeline.StageList[n].TaskList[1].DatabaseId
                      = databaseList[i].ID

\* Lines 220-228 and 241-251: some environment holds two of the databases.
MultipleDatabaseForSameEnv(databaseList) ==
    LET databaseListByEnv(e) ==
            {i \in DOMAIN databaseList : databaseList[i].EnvironmentId = e}
    IN  \E i \in DOMAIN databaseList :
            Cardinality(databaseListByEnv(databaseList[i].EnvironmentId)) > 1

\* A Go map read: the zero value for a missing key.
MapGet(m, key) == IF key \in DOMAIN m THEN m[key] ELSE ""

EmptyMap == [e \in {} |-> ""]

\* The commit timestamps a push event may carry: the same instant in UTC and
\* with a zone offset, and a text that is not RFC3339; a timestamp of Init
\* is the first.
UtcTimestamp == "2021-07-01T10:00:00Z"
OffsetTimestamp == "2021-07-01T12:00:00+02:00"
BadTimestamp == "2021-07-01 10:00:00"
Timestamps == {UtcTimestamp, OffsetTimestamp, BadTimestamp}

\* The zero value of time.Time, which time.Parse returns with an error.
ZeroTime == "0001-01-01T00:00:00Z"

\* Line 79: time.Parse(time.RFC3339, value): the instant, in UTC, or the zero
\* time and an error.
ParseTime(layout, value) ==
    IF layout = "RFC3339" /\ value \in {UtcTimestamp, OffsetTimestamp}
    THEN [ok |-> TRUE, t |-> UtcTimestamp]
    ELSE [ok |-> FALSE, t |-> ZeroTime]

\* Line 119: createdTime.Unix(), the seconds since 1970 in decimal.
Unix(t) == IF t = ZeroTime THEN "-62135596800" ELSE "1625133600"

\* Lines 262-265: the initial status of the task of a stage.
TaskStatus(approvalByEnv, environmentId) ==
    IF MapGet(approvalByEnv, environmentId) = "MANUAL_NEVER"
    THEN "PENDING"
    ELSE "PENDING_APPROVAL"

\* A stage list of the first database only.
StageList_FirstOnly(databaseList, approvalByEnv, vcsPushEvent) ==
    <<[EnvironmentId |-> databaseList[1].EnvironmentId,
       Name          |-> databaseList[1].EnvironmentName,
       TaskList      |-> <<[DatabaseId |-> databaseList[1].ID,
                            Status     |-> TaskStatus(approvalByEnv,
                                                      databaseList[1].EnvironmentId),
                            VCSPushEvent |-> vcsPushEvent]>>]>>

\* Lines 259-281: one stage, of one task, per database of the list.
StageList(databaseList, approvalByEnv, vcsPushEvent) ==
    [i \in DOMAIN databaseList |->
        [EnvironmentId |-> databaseList[i].EnvironmentId,
         Name          |-> databaseList[i].EnvironmentName,
         TaskList      |->
            <<[DatabaseId |-> databaseList[i].ID,
               Status     |-> TaskStatus(approvalByEnv,
                                         databaseList[i].EnvironmentId),
               VCSPushEvent |-> vcsPushEvent]>>]]

\* ------------------------------------------- the front end's issue status
\* types/issue.ts, line 20 and line 73.
IssueStatus == {"OPEN", "DONE", "CANCELED"}
IssueStatusTransitionType == {"RESOLVE", "CANCEL", "REOPEN"}

\* A table in which REOPEN leads to DONE.
ISSUE_STATUS_TRANSITION_LIST_ReopenToDone ==
    [RESOLVE |-> [type |-> "RESOLVE", to |-> "DONE",
                  buttonName |-> "Resolve", buttonClass |-> "btn-success"],
     CANCEL  |-> [type |-> "CANCEL", to |-> "CANCELED",
                  buttonName |-> "Cancel issue", buttonClass |-> "btn-normal"],
     REOPEN  |-> [type |-> "REOPEN", to |-> "DONE",
                  buttonName |-> "Reopen", buttonClass |-> "btn-normal"]]

\* types/issue.ts, lines 82-115: the status each transition leads to.
ISSUE_STATUS_TRANSITION_LIST ==
    [RESOLVE |-> [type |-> "RESOLVE", to |-> "DONE",
                  buttonName |-> "Resolve", buttonClass |-> "btn-success"],
     CANCEL  |-> [type |-> "CANCEL", to |-> "CANCELED",
                  buttonName |-> "Cancel issue", buttonClass |-> "btn-normal"],
     REOPEN  |-> [type |-> "REOPEN", to |-> "OPEN",
                  buttonName |-> "Reopen", buttonClass |-> "btn-normal"]]

\* types/issue.ts, lines 119-126: the transitions offered to the creator of
\* an issue, by status, the primary one first.
CREATOR_APPLICABLE_ACTION_LIST ==
    [OPEN     |-> <<"CANCEL">>,
     DONE     |-> <<"REOPEN">>,
     CANCELED |-> <<"REOPEN">>]

\* types/issue.ts, lines 128-135: those offered to the assignee.
ASSIGNEE_APPLICABLE_ACTION_LIST ==
    [OPEN     |-> <<"RESOLVE", "CANCEL">>,
     DONE     |-> <<"REOPEN">>,
     CANCELED |-> <<"REOPEN">>]

\* The issues of the front end, and who acts on them.
IssueIds == {"i1", "i2"}
Roles == {"creator", "assignee"}

\* ------------------------------------------------------- the push events
\* The file positions <<commit index, added index>> of a commit list.
Positions(commitList) ==
    UNION { {<<c, a>> : a \in 1..Len(commitList[c].AddedList)} :
            c \in 1..Len(commitList) }

\* p comes before q in the order of the loops of lines 72-73.
Before(p, q) == p[1] < q[1] \/ (p[1] = q[1] /\ p[2] < q[2])

NoPos == <<0, 0>>

\* The file the loops of lines 72-73 reach after position p (NoPos: from the
\* start), NoPos when the loops end.
NextPos(commitList, p) ==
    LET later == {q \in Positions(commitList) : Before(p, q)}
    IN  IF later = {} THEN NoPos
        ELSE CHOOSE q \in later : \A q2 \in later : q2 = q \/ Before(q, q2)

AddedLists(k) == UNION {[1..n -> Paths] : n \in 0..k}

\* The size of a commit: the files it adds, one if it adds none.
CommitSize(addedList) == IF addedList = <<>> THEN 1 ELSE Len(addedList)

\* The commit lists of size k at most.
RECURSIVE CommitLists(_)
CommitLists(k) ==
    {<<>>} \cup
    UNION { {<<[AddedList |-> a, Timestamp |-> UtcTimestamp]>> \o rest :
                rest \in CommitLists(k - CommitSize(a))} :
            a \in {x \in AddedLists(k) : CommitSize(x) <= k} }

PushCommitLists == CommitLists(MaxFiles)

\* The requests a delivery may carry: a body that cannot be read, a body that
\* is no push event, or an event; the X-Gitlab-Token header and the :id
\* parameter come with each.
Requests ==
    [Body : {"unreadable", "malformed"}, ObjectKind : {""},
     EndpointId : {KnownEndpointId, "nope"}, Token : {WebhookSecretToken, "bad"},
     ProjectID : {""}, CommitList : {<<>>}]
    \cup
    [Body : {"event"}, ObjectKind : {"push", "merge_request"},
     EndpointId : {KnownEndpointId, "nope"}, Token : {WebhookSecretToken, "bad"},
     ProjectID : {ExternalId, "7"}, CommitList : PushCommitLists]

NoIssue == [ID |-> 0]
NoResponse == [status |-> 0, body |-> <<>>]

\* The handler's locals before a request, and between two files.
InitLocals ==
    /\ commitIdx = [r \in Reqs |-> 0]
    /\ addedIdx = [r \in Reqs |-> 0]
    /\ mi = [r \in Reqs |-> NoMigrationInfo]
    /\ filterdDatabaseList = [r \in Reqs |-> <<>>]
    /\ dbIdx = [r \in Reqs |-> 0]
    /\ pipelineApprovalByEnv = [r \in Reqs |-> EmptyMap]
    /\ issue = [r \in Reqs |-> NoIssue]
    /\ createdMessageList = [r \in Reqs |-> <<>>]
    /\ response = [r \in Reqs |-> NoResponse]
    /\ trace = [r \in Reqs |-> <<>>]
    /\ issueStatus = [i \in IssueIds |-> "OPEN"]
    /\ moves = <<>>

\* One delivery, r1, of any request to any repository configuration; r2 is
\* never delivered.
Init ==
    /\ repository \in Repositories
    /\ \E q \in Requests : request = [r \in Reqs |-> q]
    /\ pc = [r \in Reqs |-> IF r = "r1" THEN "start" ELSE "idle"]
    /\ InitLocals
    /\ issueStore = <<>>
    /\ activityStore = <<>>

\* ---------------------------------------------------------- the handler
commit(r) == request[r].CommitList[commitIdx[r]]
added(r) == commit(r).AddedList[addedIdx[r]]
pos(r) == <<commitIdx[r], addedIdx[r]>>

\* Lines 79-82 and 106-123: the push event of the file: the file and the
\* creation time of its commit; a timestamp that does not parse is logged
\* and leaves the zero time.
createdTime(r) == ParseTime("RFC3339", commit(r).Timestamp).t
vcsPushEvent(r) == [Added |-> added(r), CreatedTs |-> Unix(createdTime(r))]

\* An entry of trace[r]: a file reached (op "added") or a collaborator call
\* (arg: the environment of a policy lookup, the level of an activity) and
\* whether it returned without error.
Entry(r, op, arg, ok) == [op |-> op, pos |-> pos(r), arg |-> arg, ok |-> ok]

Log(r, entries) == trace' = [trace EXCEPT ![r] = @ \o entries]

\* The failures trace[r] holds; NotFound is an answer, not a failure.
Faults(r) ==
    Cardinality({i \in DOMAIN trace[r] :
                    /\ ~trace[r][i].ok
                    /\ ~(trace[r][i].op = "FindRepository"
                         /\ trace[r][i].arg = "NotFound")})

\* The ways a call may end when the step has already seen n failures: it
\* fails only while the request has failures left.
MayFail(r, n) == IF Faults(r) + n < MaxFaults THEN BOOLEAN ELSE {FALSE}

\* return echo.NewHTTPError(status, message), or c.String(status, body).
Reply(r, status, body) ==
    /\ response' = [response EXCEPT ![r] = [status |-> status, body |-> body]]
    /\ pc' = [pc EXCEPT ![r] = "done"]

\* Comparisons that accept every request.
IsPush_Always(q) == TRUE
TokenMatches_Always(q) == TRUE
ProjectMatches_Always(q) == TRUE

\* Line 43: the event is a push event.
IsPush(q) == q.ObjectKind = "push"
\* Line 63: the X-Gitlab-Token header is the repository's secret token.
TokenMatches(q) == q.Token = WebhookSecretToken
\* Line 67: the event's project id is the repository's external id.
ProjectMatches(q) == q.ProjectID = ExternalId

\* Lines 31-45: read the body, parse the push event, check its kind.
ReadRequest(r) ==
    /\ pc[r] = "start"
    /\ IF request[r].Body = "unreadable"
       THEN Reply(r, 400, "Failed to read webhook request")
       ELSE IF request[r].Body = "malformed"
       THEN Reply(r, 400, "Malformatted push event")
       ELSE IF ~IsPush(request[r])
       THEN Reply(r, 400, "Invalid webhook event type")
       ELSE /\ pc' = [pc EXCEPT ![r] = "find"]
            /\ UNCHANGED response
    /\ UNCHANGED <<issueStatus, moves, repository, request, commitIdx, addedIdx, mi,
                   filterdDatabaseList, dbIdx, pipelineApprovalByEnv, issue,
                   createdMessageList, issueStore, activityStore, trace>>

\* Lines 47-57: s.RepositoryService.FindRepository, which finds the repository
\* of a known endpoint id, finds none (NotFound) or fails.
FindRepository(r) ==
    /\ pc[r] = "find"
    /\ \E failed \in MayFail(r, 0) :
         IF failed
         THEN /\ Reply(r, 500, "Failed to respond webhook event for endpoint")
              /\ Log(r, <<Entry(r, "FindRepository", "error", FALSE)>>)
         ELSE IF request[r].EndpointId # KnownEndpointId
         THEN /\ Reply(r, 404, "Endpoint not found")
              /\ Log(r, <<Entry(r, "FindRepository", "NotFound", FALSE)>>)
         ELSE /\ pc' = [pc EXCEPT ![r] = "compose"]
              /\ Log(r, <<Entry(r, "FindRepository", "", TRUE)>>)
              /\ UNCHANGED response
    /\ UNCHANGED <<issueStatus, moves, repository, request, commitIdx, addedIdx, mi,
                   filterdDatabaseList, dbIdx, pipelineApprovalByEnv, issue,
                   createdMessageList, issueStore, activityStore>>

\* Lines 59-61: s.ComposeRepositoryRelationship, which may fail.
ComposeRepositoryRelationship(r) ==
    /\ pc[r] = "compose"
    /\ \E failed \in MayFail(r, 0) :
         /\ Log(r, <<Entry(r, "ComposeRepositoryRelationship", "", ~failed)>>)
         /\ IF failed
            THEN Reply(r, 500, "Failed to fetch repository relationship")
            ELSE /\ pc' = [pc EXCEPT ![r] = "auth"]
                 /\ UNCHANGED response
    /\ UNCHANGED <<issueStatus, moves, repository, request, commitIdx, addedIdx, mi,
                   filterdDatabaseList, dbIdx, pipelineApprovalByEnv, issue,
                   createdMessageList, issueStore, activityStore>>

\* The loops of lines 72-73 move to position p, or end (p = NoPos); the
\* locals of the file just left go out of scope.
GoTo(r, p) ==
    /\ commitIdx' = [commitIdx EXCEPT ![r] = p[1]]
    /\ addedIdx' = [addedIdx EXCEPT ![r] = p[2]]
    /\ pc' = [pc EXCEPT ![r] = IF p = NoPos THEN "respond" ELSE "classify"]
    /\ mi' = [mi EXCEPT ![r] = NoMigrationInfo]
    /\ filterdDatabaseList' = [filterdDatabaseList EXCEPT ![r] = <<>>]
    /\ dbIdx' = [dbIdx EXCEPT ![r] = 0]
    /\ pipelineApprovalByEnv' = [pipelineApprovalByEnv EXCEPT ![r] = EmptyMap]
    /\ issue' = [issue EXCEPT ![r] = NoIssue]

\* `break` out of the loops instead: no file follows.
Continue_Break(r) == GoTo(r, NoPos)

\* `continue` of the loop of line 73: on to the next added file.
Continue(r) == GoTo(r, NextPos(request[r].CommitList, pos(r)))

\* Lines 63-73: compare the secret token and the project id, then enter the
\* loops.
CheckToken(r) ==
    /\ pc[r] = "auth"
    /\ IF ~TokenMatches(request[r])
       THEN /\ Reply(r, 400, "Secret token mismatch")
            /\ UNCHANGED <<commitIdx, addedIdx, mi, filterdDatabaseList, dbIdx,
                           pipelineApprovalByEnv, issue>>
       ELSE IF ~ProjectMatches(request[r])
       THEN /\ Reply(r, 400, "Project mismatch")
            /\ UNCHANGED <<commitIdx, addedIdx, mi, filterdDatabaseList, dbIdx,
                           pipelineApprovalByEnv, issue>>
       ELSE /\ Continue(r)
            /\ UNCHANGED response
    /\ UNCHANGED <<issueStatus, moves, repository, request, createdMessageList, issueStore,
                   activityStore, trace>>

\* Line 331: c.String(http.StatusOK, strings.Join(createdMessageList, "\n")).
Respond(r) ==
    /\ pc[r] = "respond"
    /\ Reply(r, 200, createdMessageList[r])
    /\ UNCHANGED <<issueStatus, moves, repository, request, commitIdx, addedIdx, mi,
                   filterdDatabaseList, dbIdx, pipelineApprovalByEnv, issue,
                   createdMessageList, issueStore, activityStore, trace>>

\* How json.Marshal and s.ActivityManager.CreateActivity may end, when the
\* step has already seen n failures.
ActivityOutcomes(r, n) ==
    IF TRUE \in MayFail(r, n) THEN {"ok", "marshalErr", "createErr"} ELSE {"ok"}

\* A createIgnoredFileActivity that reports success and records nothing.
createIgnoredFileActivity_Nothing(r, outcome, before) ==
    /\ UNCHANGED activityStore
    /\ Log(r, before \o <<Entry(r, "CreateActivity", "WARN", TRUE)>>)

\* Lines 126-148: createIgnoredFileActivity records a WARN activity for the
\* file, unless the payload cannot be built or the activity cannot be created,
\* which it only logs. `before` are the trace entries of the calls the step
\* made before it.
createIgnoredFileActivity(r, outcome, before) ==
    /\ activityStore' =
         IF outcome = "ok"
         THEN Append(activityStore,
                     [Level |-> "WARN", req |-> r, pos |-> pos(r),
                      Added |-> added(r), IssueId |-> 0,
                      VCSPushEvent |-> vcsPushEvent(r)])
         ELSE activityStore
    /\ Log(r, before \o <<Entry(r, "CreateActivity", "WARN", outcome = "ok")>>)

\* A classification that skips, silently, every file of a commit whose
\* timestamp does not parse.
Classify_SkipBadTimestamp(r) ==
    /\ pc[r] = "classify"
    /\ LET reached == <<Entry(r, "added", "", TRUE)>>
       IN  IF \/ ~HasPrefix(added(r), BaseDirectory)
              \/ ~ParseTime("RFC3339", commit(r).Timestamp).ok
              \/ /\ repository.SchemaPathTemplate # <<>>
                 /\ MatchString(repository.SchemaPathTemplate, added(r))
           THEN /\ Continue(r)
                /\ Log(r, reached)
                /\ UNCHANGED activityStore
           ELSE LET m == ParseMigrationInfo(
                             added(r),
                             Join(BaseDirectory, repository.FilePathTemplate))
                IN  IF ~m.ok
                    THEN /\ \E outcome \in ActivityOutcomes(r, 0) :
                                createIgnoredFileActivity(r, outcome, reached)
                         /\ Continue(r)
                    ELSE /\ mi' = [mi EXCEPT ![r] = m]
                         /\ pc' = [pc EXCEPT ![r] = "fetch"]
                         /\ Log(r, reached)
                         /\ UNCHANGED <<commitIdx, addedIdx, filterdDatabaseList,
                                        dbIdx, pipelineApprovalByEnv, issue,
                                        activityStore>>
    /\ UNCHANGED <<issueStatus, moves, repository, request, createdMessageList, response, issueStore>>

\* Lines 74-154: classify the added file: outside the base directory, a
\* generated schema file, a path that does not parse, or a migration.
Classify(r) ==
    /\ pc[r] = "classify"
    /\ LET reached == <<Entry(r, "added", "", TRUE)>>
       IN  IF ~HasPrefix(added(r), BaseDirectory)
           THEN /\ Continue(r)
                /\ Log(r, reached)
                /\ UNCHANGED activityStore
           ELSE IF /\ repository.SchemaPathTemplate # <<>>
                   /\ MatchString(repository.SchemaPathTemplate, added(r))
           THEN /\ Continue(r)
                /\ Log(r, reached)
                /\ UNCHANGED activityStore
           ELSE LET m == ParseMigrationInfo(
                             added(r),
                             Join(BaseDirectory, repository.FilePathTemplate))
                IN  IF ~m.ok
                    THEN /\ \E outcome \in ActivityOutcomes(r, 0) :
                                createIgnoredFileActivity(r, outcome, reached)
                         /\ Continue(r)
                    ELSE /\ mi' = [mi EXCEPT ![r] = m]
                         /\ pc' = [pc EXCEPT ![r] = "fetch"]
                         /\ Log(r, reached)
                         /\ UNCHANGED <<commitIdx, addedIdx, filterdDatabaseList,
                                        dbIdx, pipelineApprovalByEnv, issue,
                                        activityStore>>
    /\ UNCHANGED <<issueStatus, moves, repository, request, createdMessageList, response, issueStore>>

\* A fetch whose failure is not noticed: the handler goes on to the database
\* lookup whatever gitlab.GET and the reading of the body returned.
FetchFile_Proceeds(r) ==
    /\ pc[r] = "fetch"
    /\ \E failed \in MayFail(r, 0) :
         /\ pc' = [pc EXCEPT ![r] = "dbfind"]
         /\ Log(r, <<Entry(r, "GET", "", ~failed)>>)
         /\ UNCHANGED <<commitIdx, addedIdx, mi, filterdDatabaseList, dbIdx,
                        pipelineApprovalByEnv, issue, activityStore>>
    /\ UNCHANGED <<issueStatus, moves, repository, request, createdMessageList, response, issueStore>>

\* Lines 156-172: gitlab.GET of the file content, and reading its body.
FetchFile(r) ==
    /\ pc[r] = "fetch"
    /\ \E result \in {"ok"} \cup (IF TRUE \in MayFail(r, 0)
                                  THEN {"getErr", "readErr"} ELSE {}) :
         IF result = "ok"
         THEN /\ pc' = [pc EXCEPT ![r] = "dbfind"]
              /\ Log(r, <<Entry(r, "GET", "", TRUE)>>)
              /\ UNCHANGED <<commitIdx, addedIdx, mi, filterdDatabaseList, dbIdx,
                             pipelineApprovalByEnv, issue, activityStore>>
         ELSE /\ \E outcome \in ActivityOutcomes(r, 1) :
                     createIgnoredFileActivity(r, outcome,
                                               <<Entry(r, "GET", "", FALSE)>>)
              /\ Continue(r)
    /\ UNCHANGED <<issueStatus, moves, repository, request, createdMessageList, response, issueStore>>

\* Lines 174-214: find the databases of the project named by the file, and
\* keep those of the environment the file names, if it names one.
FindDatabases(r) ==
    /\ pc[r] = "dbfind"
    /\ \E failed \in MayFail(r, 0) :
         LET databaseList == ComposeDatabaseListByFind(mi[r].Database)
             filtered == FilterByEnvironment(databaseList, mi[r].Environment)
             call == <<Entry(r, "ComposeDatabaseListByFind", "", ~failed)>>
         IN  IF failed \/ Len(databaseList) = 0 \/ Len(filtered) = 0
             THEN /\ \E outcome \in
                            ActivityOutcomes(r, IF failed THEN 1 ELSE 0) :
                         createIgnoredFileActivity(r, outcome, call)
                  /\ Continue(r)
             ELSE /\ filterdDatabaseList' =
                         [filterdDatabaseList EXCEPT ![r] = filtered]
                  /\ dbIdx' = [dbIdx EXCEPT ![r] = 1]
                  /\ pc' = [pc EXCEPT ![r] = "approval"]
                  /\ Log(r, call)
                  /\ UNCHANGED <<commitIdx, addedIdx, mi, pipelineApprovalByEnv,
                                 issue, activityStore>>
    /\ UNCHANGED <<issueStatus, moves, repository, request, createdMessageList, response, issueStore>>

\* A map write that is lost.
MapPut_Lost(m, key, value) == m

\* Line 237: pipelineApprovalByEnv[environmentId] = p.Value.
MapPut(m, key, value) ==
    [k \in DOMAIN m \cup {key} |-> IF k = key THEN value ELSE m[k]]

\* Lines 221-239: one turn of the loop over filterdDatabaseList: load the
\* approval policy of the database's environment unless the map holds it. A
\* failed lookup records the file as ignored and `continue`s this loop.
LoadApprovalPolicy(r) ==
    /\ pc[r] = "approval"
    /\ dbIdx[r] <= Len(filterdDatabaseList[r])
    /\ LET env == filterdDatabaseList[r][dbIdx[r]].EnvironmentId
           call(ok) == <<Entry(r, "GetPipelineApprovalPolicy", env, ok)>>
       IN  IF env \in DOMAIN pipelineApprovalByEnv[r]
           THEN UNCHANGED <<pipelineApprovalByEnv, activityStore, trace>>
           ELSE \E failed \in MayFail(r, 0) :
                  IF failed
                  THEN /\ \E outcome \in ActivityOutcomes(r, 1) :
                              createIgnoredFileActivity(r, outcome, call(FALSE))
                       /\ UNCHANGED pipelineApprovalByEnv
                  ELSE /\ pipelineApprovalByEnv' =
                              [pipelineApprovalByEnv EXCEPT ![r] =
                                  MapPut(@, env, PolicyTable[env])]
                       /\ Log(r, call(TRUE))
                       /\ UNCHANGED activityStore
    /\ dbIdx' = [dbIdx EXCEPT ![r] = @ + 1]
    /\ UNCHANGED <<issueStatus, moves, repository, request, pc, commitIdx, addedIdx, mi,
                   filterdDatabaseList, issue, createdMessageList, response,
                   issueStore>>

\* Lines 241-256: after the loop, skip the file when some environment holds
\* more than one of the databases.
CheckAmbiguity(r) ==
    /\ pc[r] = "approval"
    /\ dbIdx[r] > Len(filterdDatabaseList[r])
    /\ IF MultipleDatabaseForSameEnv(filterdDatabaseList[r])
       THEN Continue(r)
       ELSE /\ pc' = [pc EXCEPT ![r] = "create"]
            /\ UNCHANGED <<commitIdx, addedIdx, mi, filterdDatabaseList, dbIdx,
                           pipelineApprovalByEnv, issue>>
    /\ UNCHANGED <<issueStatus, moves, repository, request, createdMessageList, response,
                   issueStore, activityStore, trace>>

\* A list that grows at its head.
AppendMessage_Prepend(list, line) == <<line>> \o list

\* Line 302: createdMessageList = append(createdMessageList, line).
AppendMessage(list, line) == Append(list, line)

\* A store that keeps one issue per added path: a second issue for a path it
\* holds is dropped.
InsertIssue_Deduplicated(store, new) ==
    IF \E i \in DOMAIN store : store[i].Added = new.Added
    THEN store
    ELSE Append(store, new)

\* Line 295: s.CreateIssue persists the issue it is given; it looks for no
\* earlier issue of the same commit or file.
InsertIssue(store, new) == Append(store, new)

\* Lines 258-302: compose the issue and create it; a failure skips the file,
\* a success adds the line of the response.
CreateIssue(r) ==
    /\ pc[r] = "create"
    /\ \E failed \in MayFail(r, 0) :
         /\ Log(r, <<Entry(r, "CreateIssue", "", ~failed)>>)
         /\ IF failed
            THEN /\ Continue(r)
                 /\ UNCHANGED <<issueStore, createdMessageList>>
            ELSE LET new == [ID        |-> Len(issueStore) + 1,
                             req       |-> r,
                             pos       |-> pos(r),
                             Name      |-> commitIdx[r],
                             Added     |-> added(r),
                             Pipeline  |->
                                [StageList |->
                                    StageList(filterdDatabaseList[r],
                                              pipelineApprovalByEnv[r],
                                              vcsPushEvent(r))]]
                 IN  /\ issueStore' = InsertIssue(issueStore, new)
                     /\ issue' = [issue EXCEPT ![r] = [ID |-> new.ID]]
                     /\ createdMessageList' =
                            [createdMessageList EXCEPT ![r] =
                                AppendMessage(@, [Name |-> new.Name,
                                                  Added |-> added(r),
                                                  pos |-> pos(r)])]
                     /\ pc' = [pc EXCEPT ![r] = "record"]
                     /\ UNCHANGED <<commitIdx, addedIdx, mi, filterdDatabaseList,
                                    dbIdx, pipelineApprovalByEnv>>
    /\ UNCHANGED <<issueStatus, moves, repository, request, response, activityStore>>

\* A failure of the activity of a created issue that is only logged.
SuccessActivityFailed_Swallowed(r, message) ==
    /\ Continue(r)
    /\ UNCHANGED response

\* Lines 311-313 and 324-326: the activity of a created issue could not be
\* built or created: the request ends with status 500.
SuccessActivityFailed(r, message) ==
    /\ Reply(r, 500, message)
    /\ UNCHANGED <<commitIdx, addedIdx, mi, filterdDatabaseList, dbIdx,
                   pipelineApprovalByEnv, issue>>

\* Lines 304-327: record the INFO activity of the created issue.
RecordIssueActivity(r) ==
    /\ pc[r] = "record"
    /\ \E outcome \in ActivityOutcomes(r, 0) :
         /\ Log(r, <<Entry(r, "CreateActivity", "INFO", outcome = "ok")>>)
         /\ IF outcome = "marshalErr"
            THEN /\ SuccessActivityFailed(r, "Failed to construct activity payload")
                 /\ UNCHANGED activityStore
            ELSE IF outcome = "createErr"
            THEN /\ SuccessActivityFailed(
                        r, "Failed to create project activity after creating issue")
                 /\ UNCHANGED activityStore
            ELSE /\ activityStore' =
                        Append(activityStore,
                               [Level |-> "INFO", req |-> r, pos |-> pos(r),
                                Added |-> added(r), IssueId |-> issue[r].ID,
                                VCSPushEvent |-> vcsPushEvent(r)])
                 /\ Continue(r)
                 /\ UNCHANGED response
    /\ UNCHANGED <<issueStatus, moves, repository, request, createdMessageList, issueStore>>

Next ==
    \E r \in Reqs :
        \/ ReadRequest(r)
        \/ FindRepository(r)
        \/ ComposeRepositoryRelationship(r)
        \/ CheckToken(r)
        \/ Classify(r)
        \/ FetchFile(r)
        \/ FindDatabases(r)
        \/ LoadApprovalPolicy(r)
        \/ CheckAmbiguity(r)
        \/ CreateIssue(r)
        \/ RecordIssueActivity(r)
        \/ Respond(r)

Spec == Init /\ [][Next]_vars


\* ------------------------------------------------- vocabulary of the claims
Active == {r \in Reqs : pc[r] # "idle"}

InLoop(r) == pc[r] \in {"classify", "fetch", "dbfind", "approval", "create", "record"}

\* The request is a push event for the known endpoint with the right secret
\* and project id.
ValidRequest(q) ==
    /\ q.Body = "event"
    /\ q.ObjectKind = "push"
    /\ q.EndpointId = KnownEndpointId
    /\ q.Token = WebhookSecretToken
    /\ q.ProjectID = ExternalId

\* The repository lookup or the relationship composition failed.
DependencyFailed(r) ==
    \E i \in DOMAIN trace[r] :
        /\ trace[r][i].op \in {"FindRepository", "ComposeRepositoryRelationship"}
        /\ ~trace[r][i].ok
        /\ trace[r][i].arg # "NotFound"

\* The request has passed validation: it is valid and the handler is in the
\* loops of lines 72-73, or past them, or has ended without a failure of the
\* repository lookup or composition.
PassedValidation(r) ==
    /\ ValidRequest(request[r])
    /\ \/ InLoop(r)
       \/ pc[r] = "respond"
       \/ pc[r] = "done" /\ ~DependencyFailed(r)

FilePositions(r) == Positions(request[r].CommitList)
PathAt(r, p) == request[r].CommitList[p[1]].AddedList[p[2]]

\* The handler has finished with the file at position p.
Completed(r, p) ==
    \/ InLoop(r) /\ Before(p, pos(r))
    \/ pc[r] = "respond"
    \/ pc[r] = "done" /\ response[r].status = 200
    \/ /\ pc[r] = "done"
       /\ response[r].status = 500
       /\ pos(r) # NoPos
       /\ ~Before(pos(r), p)

IssuesOf(r) == {i \in DOMAIN issueStore : issueStore[i].req = r}
IssuesAt(r, p) == {i \in IssuesOf(r) : issueStore[i].pos = p}
ActivitiesOf(r) == {i \in DOMAIN activityStore : activityStore[i].req = r}
ActivitiesAt(r, p, level) ==
    {i \in ActivitiesOf(r) :
        activityStore[i].pos = p /\ activityStore[i].Level = level}
LinesAt(r, p) ==
    {i \in DOMAIN createdMessageList[r] : createdMessageList[r][i].pos = p}

\* The entries of trace[r] for operation op on the file at p, and the failed
\* ones among them.
CallsAt(r, p, op) ==
    {i \in DOMAIN trace[r] : trace[r][i].op = op /\ trace[r][i].pos = p}
FailedCallsAt(r, p, op) == {i \in CallsAt(r, p, op) : ~trace[r][i].ok}

\* The "Created issue" lines of the response: those of a 200 body; an error
\* body holds none.
ResponseLines(r) == IF response[r].status = 200 THEN response[r].body ELSE <<>>

\* The path is a migration file under configuration rep: under the base
\* directory, no generated schema file, and it parses.
IsMigrationIn(rep, path) ==
    /\ HasPrefix(path, BaseDirectory)
    /\ ~(/\ rep.SchemaPathTemplate # <<>>
         /\ MatchString(rep.SchemaPathTemplate, path))
    /\ ParseMigrationInfo(path, Join(BaseDirectory, rep.FilePathTemplate)).ok

\* The databases of the project a descriptor names: those of its database
\* name, in its environment (compared without case) when it names one.
Candidates(m) ==
    {i \in DOMAIN DatabaseTable :
        /\ DatabaseTable[i].Name = m.Database
        /\ \/ m.Environment = ""
           \/ ToLower(DatabaseTable[i].EnvironmentName) = ToLower(m.Environment)}

\* The databases of the project with the name the descriptor gives.
NamedBy(m) == {i \in DOMAIN DatabaseTable : DatabaseTable[i].Name = m.Database}

\* Two databases of the set are in one environment.
TwoShareEnvironment(S) ==
    \E i, j \in S :
        i # j /\ DatabaseTable[i].EnvironmentId = DatabaseTable[j].EnvironmentId

\* What a path is under repository configuration rep: whether it is a
\* migration file, the databases it names (targets) and the environment it
\* names (named, "" for none), whether the databases it names hold two in one environment
\* (ambiguous), whether the databases of its name do (nameShared), and
\* whether it resolves: to at least one database, no environment holding two.
ResolutionIn(rep, path) ==
    LET m == ParseMigrationInfo(path, Join(BaseDirectory, rep.FilePathTemplate))
        migration == IsMigrationIn(rep, path)
    IN  [migration  |-> migration,
         targets    |-> IF migration THEN Candidates(m) ELSE {},
         named      |-> IF migration THEN m.Environment ELSE "",
         ambiguous  |-> migration /\ TwoShareEnvironment(Candidates(m)),
         nameShared |-> migration /\ TwoShareEnvironment(NamedBy(m)),
         resolves   |-> /\ migration
                        /\ Candidates(m) # {}
                        /\ ~TwoShareEnvironment(Candidates(m))]

\* ResolutionIn as a table over the configurations and paths of the model
\* (f @@ <<>> is f, held as an explicit table).
Resolution ==
    [rep \in Repositories |->
        [path \in Paths |-> ResolutionIn(rep, path)] @@ <<>>] @@ <<>>

IsMigration(path) == Resolution[repository][path].migration
Ambiguous(path) == Resolution[repository][path].ambiguous
NameShared(path) == Resolution[repository][path].nameShared
Resolves(path) == Resolution[repository][path].resolves

\* ------------------------------------------------------------------- C1
\* C1 as stated: at the end of a request that passed validation, a (commit,
\* added file) pair has exactly one issue if it resolves to at least one
\* database with no environment holding two, and none otherwise.
C1_AsStated ==
    \A r \in Active :
        (pc[r] = "done" /\ PassedValidation(r)) =>
            \A p \in FilePositions(r) :
                Cardinality(IssuesAt(r, p)) =
                    IF Resolves(PathAt(r, p)) THEN 1 ELSE 0

\* C1 as amended: in a request that passed validation, a pair the handler has
\* finished with has exactly one issue if it resolves, its content fetch, its
\* database lookup and its issue creation succeeded, and none otherwise; the
\* pair in progress has at most one; a pair not reached has none.
C1_IssuePerResolvedPair ==
    \A r \in Active :
        PassedValidation(r) =>
            \A p \in FilePositions(r) :
                IF Completed(r, p)
                THEN Cardinality(IssuesAt(r, p)) =
                        IF /\ Resolves(PathAt(r, p))
                           /\ FailedCallsAt(r, p, "GET") = {}
                           /\ FailedCallsAt(r, p, "ComposeDatabaseListByFind") = {}
                           /\ FailedCallsAt(r, p, "CreateIssue") = {}
                        THEN 1 ELSE 0
                ELSE IF InLoop(r) /\ p = pos(r)
                THEN Cardinality(IssuesAt(r, p)) <= 1
                ELSE IssuesAt(r, p) = {}

\* C1 witness: a request ended with status 200 in which one resolving pair
\* got its issue and another, whose issue creation failed, got none.
C1_Witness ==
    \E r \in Active :
        /\ pc[r] = "done" /\ PassedValidation(r) /\ response[r].status = 200
        /\ \E p, q \in FilePositions(r) :
              /\ Resolves(PathAt(r, p)) /\ Cardinality(IssuesAt(r, p)) = 1
              /\ Resolves(PathAt(r, q)) /\ FailedCallsAt(r, q, "CreateIssue") # {}
              /\ IssuesAt(r, q) = {}

\* ------------------------------------------------------------------- C2
\* C2 as stated: at the end of a request that passed validation, the response
\* holds exactly one "Created issue" line per issue created during the
\* request, in file-processing order.
C2_AsStated ==
    \A r \in Active :
        (pc[r] = "done" /\ PassedValidation(r)) =>
            /\ Len(ResponseLines(r)) = Cardinality(IssuesOf(r))
            /\ \A i \in DOMAIN ResponseLines(r) :
                  Cardinality(IssuesAt(r, ResponseLines(r)[i].pos)) = 1
            /\ \A i, j \in DOMAIN ResponseLines(r) :
                  i < j => Before(ResponseLines(r)[i].pos, ResponseLines(r)[j].pos)

\* C2 as amended: in a request that passed validation the handler holds one
\* line per issue created so far, each naming the commit and file of its
\* issue, in file-processing order; a response of status 200 carries exactly
\* these lines, and the only other response, of status 500, carries none.
C2_LinesOfOkResponse ==
    \A r \in Active :
        PassedValidation(r) =>
            LET list == createdMessageList[r]
            IN  /\ Len(list) = Cardinality(IssuesOf(r))
                /\ \A i \in DOMAIN list :
                      /\ Cardinality(IssuesAt(r, list[i].pos)) = 1
                      /\ \A k \in IssuesAt(r, list[i].pos) :
                            /\ issueStore[k].Name = list[i].Name
                            /\ issueStore[k].Added = list[i].Added
                /\ \A i, j \in DOMAIN list :
                      i < j => Before(list[i].pos, list[j].pos)
                /\ pc[r] = "done" =>
                      IF response[r].status = 200
                      THEN response[r].body = list
                      ELSE /\ response[r].status = 500
                           /\ ResponseLines(r) = <<>>

\* C2 witness: a response of status 200 with the lines of two issues.
C2_Witness ==
    \E r \in Active :
        /\ pc[r] = "done" /\ PassedValidation(r)
        /\ response[r].status = 200
        /\ Len(response[r].body) = 2
        /\ Cardinality(IssuesOf(r)) = 2

\* ------------------------------------------------------------------- C3
\* The collaborator calls and file visits of the per-file processing.
FileProcessingOps ==
    {"added", "GET", "ComposeDatabaseListByFind", "GetPipelineApprovalPolicy",
     "CreateIssue", "CreateActivity"}

\* No file of the request was processed: none visited, nothing fetched, no
\* database or policy looked up, no issue, no activity, no line.
NothingProcessed(r) ==
    /\ \A i \in DOMAIN trace[r] : trace[r][i].op \notin FileProcessingOps
    /\ IssuesOf(r) = {}
    /\ ActivitiesOf(r) = {}
    /\ createdMessageList[r] = <<>>

\* C3: a request that fails a validation check (unreadable or malformed
\* payload, event kind not push, unknown endpoint, secret mismatch, project id
\* mismatch) never reaches the per-file processing and has no side effect: no
\* file content is fetched, no database or policy is looked up, no issue is
\* created, no activity is recorded, and its response is an error.
C3_InvalidRequestNoSideEffects ==
    \A r \in Active :
        ~ValidRequest(request[r]) =>
            /\ NothingProcessed(r)
            /\ ~InLoop(r)
            /\ pc[r] # "respond"
            /\ pc[r] = "done" => response[r].status \in {400, 404, 500}

\* C3 witness: a push event with the right secret and a wrong project id,
\* carrying a migration file, was answered 400.
C3_Witness ==
    \E r \in Active :
        /\ pc[r] = "done"
        /\ request[r].Body = "event" /\ request[r].ObjectKind = "push"
        /\ request[r].EndpointId = KnownEndpointId
        /\ request[r].Token = WebhookSecretToken
        /\ request[r].ProjectID # ExternalId
        /\ \E p \in FilePositions(r) : IsMigration(PathAt(r, p))
        /\ response[r].status = 400
        /\ NothingProcessed(r)

\* ------------------------------------------------------------------- C4
\* The response of the first validation check the request fails, in the order
\* body read, payload parsed, event kind, endpoint, secret, project id.
FirstFailingCheck(q) ==
    IF q.Body = "unreadable"
    THEN [status |-> 400, body |-> "Failed to read webhook request"]
    ELSE IF q.Body = "malformed"
    THEN [status |-> 400, body |-> "Malformatted push event"]
    ELSE IF q.ObjectKind # "push"
    THEN [status |-> 400, body |-> "Invalid webhook event type"]
    ELSE IF q.EndpointId # KnownEndpointId
    THEN [status |-> 404, body |-> "Endpoint not found"]
    ELSE IF q.Token # WebhookSecretToken
    THEN [status |-> 400, body |-> "Secret token mismatch"]
    ELSE [status |-> 400, body |-> "Project mismatch"]

\* C4: the response to a request that fails a validation check is that of the
\* first check it fails in the order payload parses (400), event kind is push
\* (400), endpoint known (404), secret matches (400), project id matches
\* (400), as long as the repository lookup and the relationship composition
\* do not fail themselves; a request with an unparsable payload or a non-push
\* event is answered 400 before any repository lookup.
C4_FirstFailingCheckAnswers ==
    \A r \in Active :
        (pc[r] = "done" /\ ~ValidRequest(request[r])) =>
            /\ ~DependencyFailed(r) => response[r] = FirstFailingCheck(request[r])
            /\ (request[r].Body # "event" \/ request[r].ObjectKind # "push") =>
                  /\ trace[r] = <<>>
                  /\ response[r].status = 400
            /\ DependencyFailed(r) =>
                  /\ response[r].status = 500
                  /\ request[r].Body = "event"
                  /\ request[r].ObjectKind = "push"

\* C4 witness: a non-push event for an unknown endpoint was answered 400 with
\* no repository lookup made.
C4_Witness ==
    \E r \in Active :
        /\ pc[r] = "done"
        /\ request[r].Body = "event"
        /\ request[r].ObjectKind # "push"
        /\ request[r].EndpointId # KnownEndpointId
        /\ response[r] = [status |-> 400, body |-> "Invalid webhook event type"]
        /\ trace[r] = <<>>

\* ------------------------------------------------------------------- C5
\* A push event for the known endpoint whose secret header is not the
\* repository's secret.
SecretMismatch(q) ==
    /\ q.Body = "event"
    /\ q.ObjectKind = "push"
    /\ q.EndpointId = KnownEndpointId
    /\ q.Token # WebhookSecretToken

\* C5 as stated: a push event for a known endpoint with a wrong secret is
\* answered 400 with no file processed and no activity, whatever the outcome
\* of the other collaborator calls of the request.
C5_AsStated ==
    \A r \in Active :
        (pc[r] = "done" /\ SecretMismatch(request[r])) =>
            /\ response[r].status = 400
            /\ NothingProcessed(r)

\* C5 as amended: a push event for a known endpoint with a wrong secret is
\* answered 400 "Secret token mismatch" unless the repository lookup or the
\* relationship composition, which come before the comparison, fail, and then
\* 500; in both cases no file is processed and no activity is recorded.
C5_SecretMismatchAnswer ==
    \A r \in Active :
        SecretMismatch(request[r]) =>
            /\ NothingProcessed(r)
            /\ ~InLoop(r)
            /\ pc[r] = "done" =>
                  IF DependencyFailed(r)
                  THEN response[r].status = 500
                  ELSE response[r] =
                          [status |-> 400, body |-> "Secret token mismatch"]

\* C5 witness: a push event with a wrong secret, the right project id and a
\* migration file was answered 400 after its repository was found and
\* composed.
C5_Witness ==
    \E r \in Active :
        /\ pc[r] = "done"
        /\ SecretMismatch(request[r])
        /\ request[r].ProjectID = ExternalId
        /\ \E p \in FilePositions(r) : IsMigration(PathAt(r, p))
        /\ Len(trace[r]) = 2
        /\ response[r].status = 400

\* ------------------------------------------------------------------- C6
\* Nothing came of the file at p: no issue, no INFO activity, no line.
NoIssueAt(r, p) ==
    /\ IssuesAt(r, p) = {}
    /\ ActivitiesAt(r, p, "INFO") = {}
    /\ LinesAt(r, p) = {}

C7_PolicyFailureIgnoresFile ==
    \A r \in Active :
        PassedValidation(r) =>
            \A p \in FilePositions(r) :
                (Completed(r, p) /\ FailedCallsAt(r, p, "GetPipelineApprovalPolicy") # {}) =>
                    /\ IssuesAt(r, p) = {}
                    /\ LinesAt(r, p) = {}
                    /\ Cardinality(ActivitiesAt(r, p, "WARN")) <= 1
                    /\ FailedCallsAt(r, p, "CreateActivity") = {} =>
                          Cardinality(ActivitiesAt(r, p, "WARN")) = 1

\* ------------------------------------------------------------------- C8
\* C8: in every created issue, the task of a stage whose environment has the
\* approval policy "manual-never" starts pending, and the task of a stage
\* whose environment has any other policy starts pending approval.
C8_StatusFollowsPolicy ==
    \A i \in DOMAIN issueStore :
        \A k \in DOMAIN issueStore[i].Pipeline.StageList :
            LET stage == issueStore[i].Pipeline.StageList[k]
            IN  \A t \in DOMAIN stage.TaskList :
                    stage.TaskList[t].Status =
                        IF PolicyTable[stage.EnvironmentId] = "MANUAL_NEVER"
                        THEN "PENDING"
                        ELSE "PENDING_APPROVAL"

\* ------------------------------------------------------------------- C9
\* Recording the INFO activity of an issue of the request failed.
SuccessActivityFailure(r) ==
    \E i \in DOMAIN trace[r] :
        /\ trace[r][i].op = "CreateActivity"
        /\ trace[r][i].arg = "INFO"
        /\ ~trace[r][i].ok

\* The positions of the files the handler reached, in the order it did.
Visited(r) ==
    LET reached == SelectSeq(trace[r], LAMBDA e : e.op = "added")
    IN  [i \in DOMAIN reached |-> reached[i].pos]

\* C9: the per-file ignorable conditions never fail the request: a request
\* that passed validation and had no success-activity failure ends with
\* status 200 after reaching every added file once, in payload order,
\* whatever was ignored before it; the only other end is status 500, after
\* a success-activity failure.
C9_IgnoredFilesDoNotFailRequest ==
    \A r \in Active :
        PassedValidation(r) =>
            LET visited == Visited(r)
            IN  /\ \A i, j \in DOMAIN visited :
                      i < j => Before(visited[i], visited[j])
                /\ \A p \in FilePositions(r) :
                      Completed(r, p) => \E i \in DOMAIN visited : visited[i] = p
                /\ pc[r] = "done" =>
                      IF SuccessActivityFailure(r)
                      THEN response[r].status = 500
                      ELSE /\ response[r].status = 200
                           /\ Len(visited) = Cardinality(FilePositions(r))

\* C9 witness: a request ended with status 200 in which a file was ignored
\* with a WARN activity and the file after it got its issue.
C9_Witness ==
    \E r \in Active :
        /\ pc[r] = "done" /\ PassedValidation(r) /\ response[r].status = 200
        /\ \E p, q \in FilePositions(r) :
              /\ Before(p, q)
              /\ IssuesAt(r, p) = {}
              /\ ActivitiesAt(r, p, "WARN") # {}
              /\ Cardinality(IssuesAt(r, q)) = 1

\* ------------------------------------------------------------------ C10
\* The messages of the two failures of lines 311-313 and 324-326.
SuccessActivityMessages ==
    {"Failed to construct activity payload",
     "Failed to create project activity after creating issue"}

\* C10: a failure to build or create the INFO activity of a created issue
\* ends the request with status 500: it is the last step of the handler, no
\* file after it is reached and nothing is fetched, created or recorded for
\* one; the issue of the file and those of earlier files stay in the store,
\* one per line the handler held, and the response reports none of them.
C10_SuccessActivityFailureAborts ==
    \A r \in Active :
        \A i \in DOMAIN trace[r] :
            (/\ trace[r][i].op = "CreateActivity"
             /\ trace[r][i].arg = "INFO"
             /\ ~trace[r][i].ok) =>
                /\ pc[r] = "done"
                /\ response[r].status = 500
                /\ response[r].body \in SuccessActivityMessages
                /\ i = Len(trace[r])
                /\ Cardinality(IssuesAt(r, trace[r][i].pos)) = 1
                /\ Cardinality(IssuesOf(r)) = Len(createdMessageList[r])
                /\ ResponseLines(r) = <<>>
                /\ \A p \in FilePositions(r) :
                      Before(trace[r][i].pos, p) =>
                          /\ IssuesAt(r, p) = {}
                          /\ ActivitiesAt(r, p, "WARN") = {}
                          /\ ActivitiesAt(r, p, "INFO") = {}
                          /\ \A j \in DOMAIN trace[r] : trace[r][j].pos # p

\* C10 witness: the INFO activity of the issue of the first file failed, the
\* request ended with status 500, its issue is in the store and the migration
\* file after it was never reached.
C10_Witness ==
    \E r \in Active :
        /\ pc[r] = "done" /\ response[r].status = 500
        /\ SuccessActivityFailure(r)
        /\ \E p, q \in FilePositions(r) :
              /\ Before(p, q)
              /\ Cardinality(IssuesAt(r, p)) = 1
              /\ FailedCallsAt(r, p, "CreateActivity") # {}
              /\ Resolves(PathAt(r, q))
              /\ CallsAt(r, q, "added") = {}

\* ------------------------------------------------------------------ C11
\* The operations trace[r] holds for the file at p.
OpsAt(r, p) == {trace[r][i].op : i \in {j \in DOMAIN trace[r] : trace[r][j].pos = p}}

\* The file at p was passed over in silence, if reached at all: nothing was
\* fetched or looked up for it, and it has no issue, no activity and no line.
SilentAt(r, p) ==
    /\ OpsAt(r, p) \subseteq {"added"}
    /\ IssuesAt(r, p) = {}
    /\ ActivitiesAt(r, p, "WARN") = {}
    /\ ActivitiesAt(r, p, "INFO") = {}
    /\ LinesAt(r, p) = {}

\* The path does not begin with the base directory.
OutsideBase(path) ==
    \/ Len(path) < Len(BaseDirectory)
    \/ \E i \in DOMAIN BaseDirectory : path[i] # BaseDirectory[i]

\* C11: an added file whose path does not begin with the repository's base
\* directory has no activity and no issue, triggers no content fetch and no
\* database lookup, and has no line in the response.
C11_OutsideBaseSilent ==
    \A r \in Active :
        \A p \in FilePositions(r) :
            OutsideBase(PathAt(r, p)) =>
                /\ SilentAt(r, p)
                /\ \A i \in DOMAIN ResponseLines(r) : ResponseLines(r)[i].pos # p

\* C11 witness: a request ended with status 200 in which a file outside the
\* base directory was passed over and the file after it got its issue.
C11_Witness ==
    \E r \in Active :
        /\ pc[r] = "done" /\ response[r].status = 200
        /\ \E p, q \in FilePositions(r) :
              /\ Before(p, q)
              /\ OutsideBase(PathAt(r, p))
              /\ OpsAt(r, p) = {"added"}
              /\ Cardinality(IssuesAt(r, q)) = 1

\* ------------------------------------------------------------------ C12
\* The path holds a generated schema artifact of configuration rep: a schema
\* path template is configured and some run of the path's segments is the
\* template, each literal segment standing for itself and each placeholder
\* for one or more segments. cut[k] is where the k-th element of the template
\* ends in the path, cut[0] where the run begins.
SchemaArtifactIn(rep, path) ==
    LET template == rep.SchemaPathTemplate
    IN  /\ template # <<>>
        /\ \E cut \in [0..Len(template) -> 0..Len(path)] :
              \A k \in 1..Len(template) :
                  /\ cut[k] > cut[k - 1]
                  /\ template[k] \notin Placeholders =>
                        /\ cut[k] = cut[k - 1] + 1
                        /\ path[cut[k]] = template[k]

\* SchemaArtifactIn as a table over the configurations and paths of the model.
SchemaArtifact ==
    [rep \in Repositories |->
        [path \in Paths |-> SchemaArtifactIn(rep, path)] @@ <<>>] @@ <<>>

\* C12: when a schema path template is configured, an added file under the
\* base directory that matches the generated schema-artifact pattern is
\* skipped in silence: no activity, no issue, no response line, nothing
\* fetched or looked up; and the request goes on: when it ends with status
\* 200 every file after it was reached.
C12_SchemaArtifactSilent ==
    \A r \in Active :
        \A p \in FilePositions(r) :
            (/\ ~OutsideBase(PathAt(r, p))
             /\ SchemaArtifact[repository][PathAt(r, p)]) =>
                /\ SilentAt(r, p)
                /\ (pc[r] = "done" /\ response[r].status = 200) =>
                      \A q \in FilePositions(r) :
                          Before(p, q) => "added" \in OpsAt(r, q)

\* C12 witness: a request ended with status 200 in which a generated schema
\* file was skipped and the migration file after it got its issue.
C12_Witness ==
    \E r \in Active :
        /\ pc[r] = "done" /\ response[r].status = 200
        /\ \E p, q \in FilePositions(r) :
              /\ Before(p, q)
              /\ SchemaArtifact[repository][PathAt(r, p)]
              /\ OpsAt(r, p) = {"added"}
              /\ Cardinality(IssuesAt(r, q)) = 1

\* ------------------------------------------------------------------ C13
\* The path is under the base directory, is no generated schema artifact and
\* does not parse against the migration path template.
ParseFails(path) ==
    /\ ~OutsideBase(path)
    /\ ~SchemaArtifact[repository][path]
    /\ ~IsMigration(path)

\* The attempts to record a WARN activity for the file at p, and the
\* successful ones among them.
WarnAttemptsAt(r, p) ==
    {i \in CallsAt(r, p, "CreateActivity") : trace[r][i].arg = "WARN"}
WarnRecordedAt(r, p) == {i \in WarnAttemptsAt(r, p) : trace[r][i].ok}

\* C13 as stated: a file under the base directory that is no generated schema
\* artifact and whose path fails to parse always has exactly one WARN
\* activity and no issue once the handler has moved to the next file.
C13_AsStated ==
    \A r \in Active :
        PassedValidation(r) =>
            \A p \in FilePositions(r) :
                (Completed(r, p) /\ ParseFails(PathAt(r, p))) =>
                    /\ Cardinality(ActivitiesAt(r, p, "WARN")) = 1
                    /\ IssuesAt(r, p) = {}

\* C13 as amended: for such a file the handler makes exactly one attempt to
\* record a WARN activity and nothing else: the file has one WARN activity if
\* the attempt succeeded and none if it failed, no issue, no INFO activity
\* and no line, nothing is fetched or looked up for it, and the request goes
\* on with the next file.
C13_ParseFailureRecorded ==
    \A r \in Active :
        PassedValidation(r) =>
            \A p \in FilePositions(r) :
                ParseFails(PathAt(r, p)) =>
                    /\ OpsAt(r, p) \subseteq {"added", "CreateActivity"}
                    /\ Cardinality(ActivitiesAt(r, p, "WARN")) =
                          Cardinality(WarnRecordedAt(r, p))
                    /\ IssuesAt(r, p) = {}
                    /\ ActivitiesAt(r, p, "INFO") = {}
                    /\ LinesAt(r, p) = {}
                    /\ Completed(r, p) =>
                          /\ Cardinality(WarnAttemptsAt(r, p)) = 1
                          /\ (pc[r] = "done" /\ response[r].status = 200) =>
                                \A q \in FilePositions(r) :
                                    Before(p, q) => "added" \in OpsAt(r, q)

\* C13 witness: a request ended with status 200 in which a file that does
\* not parse has its WARN activity and the file after it got its issue.
C13_Witness ==
    \E r \in Active :
        /\ pc[r] = "done" /\ response[r].status = 200
        /\ \E p, q \in FilePositions(r) :
              /\ Before(p, q)
              /\ ParseFails(PathAt(r, p))
              /\ Cardinality(ActivitiesAt(r, p, "WARN")) = 1
              /\ Cardinality(IssuesAt(r, q)) = 1

\* ------------------------------------------------------------------ C14
\* The path parses and the project owns no database of the name it gives, or
\* none in the environment it names.
NoTarget(path) == IsMigration(path) /\ ~Ambiguous(path) /\ ~Resolves(path)

\* C14 as stated: a file whose path parses but names no database of the
\* project, or none in the named environment, has exactly one WARN activity,
\* referencing the file, and no issue once the handler, having fetched its
\* content and looked its databases up, has finished with it.
C14_AsStated ==
    \A r \in Active :
        PassedValidation(r) =>
            \A p \in FilePositions(r) :
                (/\ Completed(r, p)
                 /\ NoTarget(PathAt(r, p))
                 /\ FailedCallsAt(r, p, "GET") = {}
                 /\ FailedCallsAt(r, p, "ComposeDatabaseListByFind") = {}) =>
                    /\ Cardinality(ActivitiesAt(r, p, "WARN")) = 1
                    /\ IssuesAt(r, p) = {}

\* C14 as amended: for such a file the handler makes exactly one attempt to
\* record a WARN activity: the file has one WARN activity, referencing the
\* file, if the attempt succeeded and none if it failed; it has no issue, no
\* INFO activity and no line, and no approval policy is looked up and no
\* issue creation attempted for it.
C14_NoTargetRecorded ==
    \A r \in Active :
        PassedValidation(r) =>
            \A p \in FilePositions(r) :
                NoTarget(PathAt(r, p)) =>
                    /\ OpsAt(r, p) \subseteq
                          {"added", "GET", "ComposeDatabaseListByFind", "CreateActivity"}
                    /\ Cardinality(ActivitiesAt(r, p, "WARN")) =
                          Cardinality(WarnRecordedAt(r, p))
                    /\ \A i \in ActivitiesAt(r, p, "WARN") :
                          activityStore[i].Added = PathAt(r, p)
                    /\ IssuesAt(r, p) = {}
                    /\ ActivitiesAt(r, p, "INFO") = {}
                    /\ LinesAt(r, p) = {}
                    /\ Completed(r, p) => Cardinality(WarnAttemptsAt(r, p)) = 1

\* C14 witness: the content of a file was fetched, the database lookup
\* succeeded and left no database for it, and the file has its one WARN
\* activity.
C14_Witness ==
    \E r \in Active :
        /\ PassedValidation(r)
        /\ \E p \in FilePositions(r) :
              /\ Completed(r, p)
              /\ NoTarget(PathAt(r, p))
              /\ CallsAt(r, p, "ComposeDatabaseListByFind") # {}
              /\ FailedCallsAt(r, p, "ComposeDatabaseListByFind") = {}
              /\ Cardinality(ActivitiesAt(r, p, "WARN")) = 1

\* ------------------------------------------------------------------ C15
\* C15: a file whose issue creation failed is skipped leaving nothing behind
\* (no issue, no INFO activity, no response line) and, not being one of the
\* two silent conditions, is a recorded ignore: the failure is followed by an
\* attempt to record a WARN activity for the file.
C15_IssueFailureRecorded ==
    \A r \in Active :
        PassedValidation(r) =>
            \A p \in FilePositions(r) :
                \A i \in FailedCallsAt(r, p, "CreateIssue") :
                    Completed(r, p) =>
                        /\ IssuesAt(r, p) = {}
                        /\ ActivitiesAt(r, p, "INFO") = {}
                        /\ LinesAt(r, p) = {}
                        /\ \E j \in WarnAttemptsAt(r, p) : j > i

\* ------------------------------------------------------------------ C16
\* The databases the file at p names, and those of them in environment env.
TargetsAt(r, p) == Resolution[repository][PathAt(r, p)].targets
TargetsIn(r, p, env) ==
    {i \in TargetsAt(r, p) : DatabaseTable[i].EnvironmentId = env}

\* The approval-policy lookups made for environment env while processing the
\* file at p.
PolicyCallsAt(r, p, env) ==
    {i \in CallsAt(r, p, "GetPipelineApprovalPolicy") : trace[r][i].arg = env}

\* The handler has gone through the policy lookups of the file at p: it has
\* finished with the file after a successful fetch and a successful database
\* lookup that left databases.
PolicyLoaded(r, p) ==
    /\ Completed(r, p)
    /\ TargetsAt(r, p) # {}
    /\ FailedCallsAt(r, p, "GET") = {}
    /\ FailedCallsAt(r, p, "ComposeDatabaseListByFind") = {}

InfoRecorded(r) ==
    {i \in DOMAIN trace[r] :
        /\ trace[r][i].op = "CreateActivity"
        /\ trace[r][i].arg = "INFO"
        /\ trace[r][i].ok}

\* C17: each (commit, added file) pair has at most one activity: a WARN
\* activity only without an issue, an INFO activity only with one, never
\* both; and the INFO activities of a request are as many as its issues
\* whose success recording completed.
C17_OneActivityPerPair ==
    \A r \in Active :
        PassedValidation(r) =>
            /\ \A p \in FilePositions(r) :
                  /\ Cardinality(ActivitiesAt(r, p, "WARN"))
                        + Cardinality(ActivitiesAt(r, p, "INFO")) <= 1
                  /\ ActivitiesAt(r, p, "WARN") # {} => IssuesAt(r, p) = {}
                  /\ ActivitiesAt(r, p, "INFO") # {} =>
                        Cardinality(IssuesAt(r, p)) = 1
            /\ Cardinality({i \in ActivitiesOf(r) : activityStore[i].Level = "INFO"})
                  = Cardinality(InfoRecorded(r))

\* ------------------------------------------------------------------ C18
\* C18: every created issue owns one pipeline whose stages are exactly the
\* databases its file names: one stage per database, each with exactly one
\* task, on that database, and with the id and name of that database's
\* environment; no two stages share an environment id; and when the file
\* path names an environment, the name of every stage equals it without
\* regard to case.
C18_StagePerResolvedDatabase ==
    \A k \in DOMAIN issueStore :
        LET stages == issueStore[k].Pipeline.StageList
            path == PathAt(issueStore[k].req, issueStore[k].pos)
            targets == Resolution[repository][path].targets
            named == Resolution[repository][path].named
        IN  /\ Len(stages) = Cardinality(targets)
            /\ Len(stages) >= 1
            /\ {i \in targets : \E n \in DOMAIN stages :
                    stages[n].TaskList[1].DatabaseId = DatabaseTable[i].ID} = targets
            /\ \A n \in DOMAIN stages :
                  /\ Len(stages[n].TaskList) = 1
                  /\ \E i \in targets :
                        /\ stages[n].TaskList[1].DatabaseId = DatabaseTable[i].ID
                        /\ stages[n].EnvironmentId = DatabaseTable[i].EnvironmentId
                        /\ stages[n].Name = DatabaseTable[i].EnvironmentName
                  /\ named # "" => ToLower(stages[n].Name) = ToLower(named)
            /\ \A m, n \in DOMAIN stages :
                  m # n => stages[m].EnvironmentId # stages[n].EnvironmentId

\* C18 witness: an issue whose pipeline has two stages, for the two
\* environments of the database its file names.
C18_Witness ==
    \E k \in DOMAIN issueStore :
        /\ Len(issueStore[k].Pipeline.StageList) = 2
        /\ Cardinality(Resolution[repository]
                           [PathAt(issueStore[k].req, issueStore[k].pos)].targets) = 2

\* ------------------------------------------------- two deliveries
\* The push events delivered twice: valid ones, of one commit adding one file.
TwiceDelivered ==
    {q \in Requests :
        /\ ValidRequest(q)
        /\ Len(q.CommitList) = 1
        /\ Len(q.CommitList[1].AddedList) = 1}

\* Two deliveries, r1 and r2, of one push event to one repository.
InitTwo ==
    /\ repository \in Repositories
    /\ \E q \in TwiceDelivered : request = [r \in Reqs |-> q]
    /\ pc = [r \in Reqs |-> "start"]
    /\ InitLocals
    /\ issueStore = <<>>
    /\ activityStore = <<>>

\* The deliveries are handled concurrently (lines 29-30: each request runs
\* the handler on its own, under no lock): their steps interleave freely.
SpecRace == InitTwo /\ [][Next]_vars

\* The event is replayed: r2 is delivered once r1 has been answered.
NextReplay ==
    \E r \in Reqs :
        /\ r = "r2" => pc["r1"] = "done"
        /\ \/ ReadRequest(r)
           \/ FindRepository(r)
           \/ ComposeRepositoryRelationship(r)
           \/ CheckToken(r)
           \/ Classify(r)
           \/ FetchFile(r)
           \/ FindDatabases(r)
           \/ LoadApprovalPolicy(r)
           \/ CheckAmbiguity(r)
           \/ CreateIssue(r)
           \/ RecordIssueActivity(r)
           \/ Respond(r)

SpecReplay == InitTwo /\ [][NextReplay]_vars

\* ------------------------------------------------------------------ C19
\* No call of delivery r failed.
AllCallsOk(r) == \A i \in DOMAIN trace[r] : trace[r][i].ok

\* The single file of the push event delivered twice.
TheFile == <<1, 1>>

\* C19: idempotence is not provided: when a push event whose file produced
\* an issue is delivered a second time, after the first was answered and
\* with the same repository, databases and policies, the second delivery,
\* its calls succeeding, creates a second issue for the file, with its own
\* INFO activity and its own response line; nothing of the first delivery
\* suppresses it.
C19_ReplayCreatesSecondIssue ==
    (/\ pc["r1"] = "done" /\ pc["r2"] = "done"
     /\ IssuesAt("r1", TheFile) # {}
     /\ AllCallsOk("r2")) =>
        /\ Cardinality(IssuesAt("r2", TheFile)) = 1
        /\ Cardinality(IssuesAt("r1", TheFile) \cup IssuesAt("r2", TheFile)) = 2
        /\ Cardinality(ActivitiesAt("r2", TheFile, "INFO")) = 1
        /\ response["r2"].status = 200
        /\ Len(response["r2"].body) = 1
        /\ response["r2"].body[1].Added = PathAt("r1", TheFile)

\* C19 witness: both deliveries were answered 200, each with its line, and
\* the store holds two issues and two INFO activities for the one file.
C19_Witness ==
    /\ pc["r1"] = "done" /\ pc["r2"] = "done"
    /\ response["r1"].status = 200 /\ Len(response["r1"].body) = 1
    /\ response["r2"].status = 200 /\ Len(response["r2"].body) = 1
    /\ AllCallsOk("r1") /\ AllCallsOk("r2")
    /\ Len(issueStore) = 2
    /\ issueStore[1].req = "r1" /\ issueStore[2].req = "r2"
    /\ issueStore[1].Added = issueStore[2].Added
    /\ Cardinality(ActivitiesAt("r1", TheFile, "INFO")) = 1
    /\ Cardinality(ActivitiesAt("r2", TheFile, "INFO")) = 1

\* ------------------------------------------------------------------ C20
\* The databases the stages of issue k target.
DatabasesOf(k) ==
    {issueStore[k].Pipeline.StageList[n].TaskList[1].DatabaseId :
        n \in DOMAIN issueStore[k].Pipeline.StageList}

\* C20: concurrent deliveries exclude nothing of each other: a delivery is
\* past the ambiguity check exactly on what its file resolves to, whatever
\* the other delivery has created; a delivery that has finished a resolving
\* file with all its calls successful has created its own issue for it; and
\* the issues the two deliveries create for the file target the same
\* databases.
C20_DeliveriesDoNotExclude ==
    /\ \A r \in Reqs :
          /\ pc[r] \in {"create", "record"} => Resolves(PathAt(r, TheFile))
          /\ (/\ Completed(r, TheFile)
              /\ Resolves(PathAt(r, TheFile))
              /\ AllCallsOk(r)) =>
                 Cardinality(IssuesAt(r, TheFile)) = 1
    /\ \A i \in IssuesAt("r1", TheFile) :
          \A j \in IssuesAt("r2", TheFile) :
              /\ i # j
              /\ DatabasesOf(i) = DatabasesOf(j)
              /\ DatabasesOf(i) # {}

\* C20 witness: both deliveries are past the ambiguity check and have each
\* created an issue, neither has recorded its activity yet, and the two
\* issues have a stage on the same database of the same environment.
C20_Witness ==
    /\ pc["r1"] = "record" /\ pc["r2"] = "record"
    /\ \E i \in IssuesAt("r1", TheFile) :
          \E j \in IssuesAt("r2", TheFile) :
              \E m \in DOMAIN issueStore[i].Pipeline.StageList :
                  \E n \in DOMAIN issueStore[j].Pipeline.StageList :
                      LET s == issueStore[i].Pipeline.StageList[m]
                          t == issueStore[j].Pipeline.StageList[n]
                      IN  /\ s.TaskList[1].DatabaseId = t.TaskList[1].DatabaseId
                          /\ s.EnvironmentId = t.EnvironmentId

\* ------------------------------------------------------------------ C21
\* The content fetch of the file at p, or the reading of its body, failed.
FetchFails(r, p) == FailedCallsAt(r, p, "GET") # {}

\* The content of a file is fetched once at most, only when its path parses,
\* and the databases are looked up only after a successful fetch.
FetchBetweenParseAndLookup(r) ==
    \A i \in DOMAIN trace[r] :
        /\ trace[r][i].op = "GET" =>
              /\ IsMigration(PathAt(r, trace[r][i].pos))
              /\ \A j \in DOMAIN trace[r] :
                    (j < i /\ trace[r][j].pos = trace[r][i].pos) =>
                        trace[r][j].op = "added"
        /\ trace[r][i].op = "ComposeDatabaseListByFind" =>
              \E j \in DOMAIN trace[r] :
                  /\ j < i
                  /\ trace[r][j].op = "GET"
                  /\ trace[r][j].pos = trace[r][i].pos
                  /\ trace[r][j].ok

\* C21 as stated: the content is fetched after the path parses and before
\* any database lookup, and a file whose fetch fails has exactly one WARN
\* activity once the handler has moved on, no database lookup, no policy
\* lookup and no issue, and the files after it are reached all the same.
C21_AsStated ==
    \A r \in Active :
        PassedValidation(r) =>
            /\ FetchBetweenParseAndLookup(r)
            /\ \A p \in FilePositions(r) :
                  (Completed(r, p) /\ FetchFails(r, p)) =>
                      /\ Cardinality(ActivitiesAt(r, p, "WARN")) = 1
                      /\ OpsAt(r, p) \subseteq {"added", "GET", "CreateActivity"}
                      /\ IssuesAt(r, p) = {}

\* C21 as amended: the content is fetched after the path parses and before
\* any database lookup; for a file whose fetch fails the handler makes one
\* attempt to record a WARN activity and nothing else: one WARN activity if
\* the attempt succeeded and none if it failed, no database lookup, no policy
\* lookup, no issue, no INFO activity and no line; the request is not failed
\* by it and every file after it is reached.
C21_FetchFailureRecorded ==
    \A r \in Active :
        PassedValidation(r) =>
            /\ FetchBetweenParseAndLookup(r)
            /\ \A p \in FilePositions(r) :
                  FetchFails(r, p) =>
                      /\ OpsAt(r, p) \subseteq {"added", "GET", "CreateActivity"}
                      /\ Cardinality(CallsAt(r, p, "GET")) = 1
                      /\ Cardinality(ActivitiesAt(r, p, "WARN")) =
                            Cardinality(WarnRecordedAt(r, p))
                      /\ \A i \in ActivitiesAt(r, p, "WARN") :
                            activityStore[i].Added = PathAt(r, p)
                      /\ IssuesAt(r, p) = {}
                      /\ ActivitiesAt(r, p, "INFO") = {}
                      /\ LinesAt(r, p) = {}
                      /\ Completed(r, p) =>
                            /\ Cardinality(WarnAttemptsAt(r, p)) = 1
                            /\ (pc[r] = "done" /\ response[r].status = 200) =>
                                  \A q \in FilePositions(r) :
                                      Before(p, q) => "added" \in OpsAt(r, q)

\* C21 witness: a request ended with status 200 in which a file whose fetch
\* failed has its WARN activity and the file after it got its issue.
C21_Witness ==
    \E r \in Active :
        /\ pc[r] = "done" /\ response[r].status = 200
        /\ \E p, q \in FilePositions(r) :
              /\ Before(p, q)
              /\ FetchFails(r, p)
              /\ Cardinality(ActivitiesAt(r, p, "WARN")) = 1
              /\ Cardinality(IssuesAt(r, q)) = 1

\* ------------------------------------------------------------------ C22
\* The attempts to record a WARN activity for the file at p that failed, in
\* building the payload or in persisting the activity.
WarnFailedAt(r, p) == {i \in WarnAttemptsAt(r, p) : ~trace[r][i].ok}

\* C22: a failed attempt to record a WARN activity for a file is swallowed:
\* the file has no issue and no activity at all, the files after it are
\* reached, and the request ends with status 200 unless the INFO activity of
\* a created issue failed, the only failure that ends it with status 500.
C22_WarnFailureSwallowed ==
    \A r \in Active :
        PassedValidation(r) =>
            /\ \A p \in FilePositions(r) :
                  WarnFailedAt(r, p) # {} =>
                      /\ IssuesAt(r, p) = {}
                      /\ ActivitiesAt(r, p, "WARN") = {}
                      /\ ActivitiesAt(r, p, "INFO") = {}
                      /\ (pc[r] = "done" /\ response[r].status = 200) =>
                            \A q \in FilePositions(r) :
                                Before(p, q) => "added" \in OpsAt(r, q)
            /\ pc[r] = "done" =>
                  response[r].status =
                      IF SuccessActivityFailure(r) THEN 500 ELSE 200

\* ------------------------------------------------- commit timestamps
\* The commit lists that differ from commitList in the timestamps only.
Retimings(commitList) ==
    {[i \in DOMAIN commitList |->
         [commitList[i] EXCEPT !.Timestamp = stamps[i]]] :
     stamps \in [DOMAIN commitList -> Timestamps]}

\* One delivery, r1, of any request, each commit with any of the timestamps,
\* to any repository configuration.
InitTimed ==
    /\ repository \in Repositories
    /\ \E q \in Requests :
          \E l \in Retimings(q.CommitList) :
              request = [r \in Reqs |-> [q EXCEPT !.CommitList = l]]
    /\ pc = [r \in Reqs |-> IF r = "r1" THEN "start" ELSE "idle"]
    /\ InitLocals
    /\ issueStore = <<>>
    /\ activityStore = <<>>

SpecTimed == InitTimed /\ [][Next]_vars

\* ------------------------------------------------------------------ C23
\* The timestamp of the commit of the file at p, and the creation time the
\* push event of a file of such a commit records: the seconds of the instant
\* an RFC3339 timestamp denotes, those of the zero time otherwise.
StampAt(r, p) == request[r].CommitList[p[1]].Timestamp
RecordedCreatedTs(stamp) ==
    IF stamp = BadTimestamp THEN "-62135596800" ELSE "1625133600"
PushEventAt(r, p) ==
    [Added |-> PathAt(r, p), CreatedTs |-> RecordedCreatedTs(StampAt(r, p))]

ApplicableActionList(role, s) ==
    IF role = "creator"
    THEN CREATOR_APPLICABLE_ACTION_LIST[s]
    ELSE ASSIGNEE_APPLICABLE_ACTION_LIST[s]

Elements(list) == {list[k] : k \in DOMAIN list}

\* A role applies to issue i a transition offered to it: the issue takes the
\* status the transition leads to.
ApplyTransition(i, role, type) ==
    /\ Len(moves) < MaxMoves
    /\ type \in Elements(ApplicableActionList(role, issueStatus[i]))
    /\ issueStatus' = [issueStatus EXCEPT ![i] = ISSUE_STATUS_TRANSITION_LIST[type].to]
    /\ moves' = Append(moves, [issue |-> i, role |-> role, type |-> type,
                               from |-> issueStatus[i],
                               to |-> ISSUE_STATUS_TRANSITION_LIST[type].to])
    /\ UNCHANGED <<repository, request, pc, commitIdx, addedIdx, mi,
                   filterdDatabaseList, dbIdx, pipelineApprovalByEnv, issue,
                   createdMessageList, response, issueStore, activityStore,
                   trace>>

\* Issues of any status; no delivery of the webhook is under way.
InitStatus ==
    /\ repository = CHOOSE rep \in Repositories : TRUE
    /\ request = [r \in Reqs |-> CHOOSE q \in TwiceDelivered : TRUE]
    /\ pc = [r \in Reqs |-> "idle"]
    /\ commitIdx = [r \in Reqs |-> 0]
    /\ addedIdx = [r \in Reqs |-> 0]
    /\ mi = [r \in Reqs |-> NoMigrationInfo]
    /\ filterdDatabaseList = [r \in Reqs |-> <<>>]
    /\ dbIdx = [r \in Reqs |-> 0]
    /\ pipelineApprovalByEnv = [r \in Reqs |-> EmptyMap]
    /\ issue = [r \in Reqs |-> NoIssue]
    /\ createdMessageList = [r \in Reqs |-> <<>>]
    /\ response = [r \in Reqs |-> NoResponse]
    /\ trace = [r \in Reqs |-> <<>>]
    /\ issueStore = <<>>
    /\ activityStore = <<>>
    /\ issueStatus \in [IssueIds -> IssueStatus]
    /\ moves = <<>>

NextStatus ==
    \E i \in IssueIds, role \in Roles, type \in IssueStatusTransitionType :
        ApplyTransition(i, role, type)

SpecStatus == InitStatus /\ [][NextStatus]_vars

\* ------------------------------------------------------------------ C24
\* The moves of the claim: OPEN to DONE, OPEN to CANCELED, DONE to OPEN and
\* CANCELED to OPEN.
ClaimedMoves ==
    {<<"OPEN", "DONE">>, <<"OPEN", "CANCELED">>,
     <<"DONE", "OPEN">>, <<"CANCELED", "OPEN">>}

\* C24: under the status tables every applied action leads to a status other
\* than the one it left; the moves are OPEN to DONE, by RESOLVE and by the
\* assignee only, OPEN to CANCELED, DONE to OPEN and CANCELED to OPEN, and
\* every one of them is offered; no move leads from DONE to CANCELED or from
\* CANCELED to DONE; and in every status the actions offered to the creator
\* are among those offered to the assignee.
C24_StatusMoves ==
    /\ \A k \in DOMAIN moves :
          /\ moves[k].to # moves[k].from
          /\ <<moves[k].from, moves[k].to>> \in ClaimedMoves
          /\ ~({moves[k].from, moves[k].to} = {"DONE", "CANCELED"})
          /\ (moves[k].to = "DONE") =
                (moves[k].type = "RESOLVE" /\ moves[k].from = "OPEN")
          /\ moves[k].to = "DONE" => moves[k].role = "assignee"
    /\ \A i \in IssueIds :
          LET mine == SelectSeq(moves, LAMBDA m : m.issue = i)
          IN  /\ mine # <<>> => issueStatus[i] = mine[Len(mine)].to
              /\ \A k \in 1..(Len(mine) - 1) : mine[k + 1].from = mine[k].to
    /\ \A s \in IssueStatus :
          /\ Elements(CREATOR_APPLICABLE_ACTION_LIST[s])
                \subseteq Elements(ASSIGNEE_APPLICABLE_ACTION_LIST[s])
          /\ \A role \in Roles :
                \A type \in Elements(ApplicableActionList(role, s)) :
                    /\ ISSUE_STATUS_TRANSITION_LIST[type].to # s
                    /\ <<s, ISSUE_STATUS_TRANSITION_LIST[type].to>> \in ClaimedMoves
    /\ \A mv \in ClaimedMoves :
          \E type \in Elements(ASSIGNEE_APPLICABLE_ACTION_LIST[mv[1]]) :
              ISSUE_STATUS_TRANSITION_LIST[type].to = mv[2]

\* C24 witness: an issue the assignee resolved, someone reopened and the
\* creator then canceled: from DONE to CANCELED by way of OPEN.
C24_Witness ==
    /\ Len(moves) = 3
    /\ moves[1].issue = moves[2].issue /\ moves[2].issue = moves[3].issue
    /\ moves[1].type = "RESOLVE" /\ moves[1].role = "assignee"
    /\ moves[2].type = "REOPEN"
    /\ moves[3].type = "CANCEL" /\ moves[3].role = "creator"
    /\ issueStatus[moves[3].issue] = "CANCELED"

====
